---- MODULE Spec2Model ----
(***************************************************************************)
(* Market-dynamics core of the stock market simulation:                    *)
(*   ExecCircuitBreaker.component_step  (components/circuit_breaker.py)    *)
(*   BuyOrSellStocks.component_step     (components/buysell_stocks.py)     *)
(*   StockMarketSimulation.reset_agent_states / scenario_step              *)
(*                                                                         *)
(* Money is counted in ticks of 1/TcDen currency unit, so that the         *)
(* transaction cost 0.0075 = TcNum/TcDen of a whole-unit price is exact.   *)
(* Prices are whole currency units expressed in ticks.                     *)
(***************************************************************************)
EXTENDS Integers, Sequences, FiniteSets, TLC

\* ---------------------------------------------------------------- bounds
MaxSteps == 2
MaxInterval == 2
stock_quantity == 6
\* the horizon and the intervals of the runs in which agents only hold
MaxQuietSteps == 4
MaxQuietInterval == 3
\* the latest crash start and the longest crash of the runs that follow a
\* crash to its end (np.random.randint(90) and np.random.randint(1, 10))
MaxCrashStart == 2
MaxCrashDuration == 4

\* ------------------------------------------------------ program constants
TcNum == 3
TcDen == 400
no_actions == 20
half_actions == 10
planner_no_actions == 1
penalty == 5000

\* the trading agents of the world (self.world.agents)
Agents == {1, 2}
\* an episode of the longest run any specification makes
CrashHorizon == MaxCrashStart + MaxCrashDuration
stock_price_history_length == CrashHorizon + 1

\* inputs the environment supplies
AgentActions == {-1, 0, 5, 10, 20, 21}
PlannerActions == {-1, 0, 1, 2}
PriceUnits == {2000, 4000}
FundUnits == {19500, 20000}
Prices == {p * TcDen : p \in PriceUnits}
StartingFundsSet == {f * TcDen : f \in FundUnits}
\* one draw of np.random.normal(20000, 500) per agent; the draws kept give the
\* agents different funds, increasing with the agent's index
FundDraws ==
    {f \in [Agents -> StartingFundsSet] : \A a, b \in Agents : a < b => f[a] < f[b]}
CrashStarts == {0, 1}
CrashDurations == {3}
\* prices a step may be asked to produce: the grid, a higher value and zero
StepPrices == Prices \cup {0, 8000 * TcDen}
\* np.random.uniform(0.3, 0.9) and np.random.uniform(0.3, 0.7), as fractions
Intensities == {[num |-> 1, den |-> 2]}
Decays == {[num |-> 1, den |-> 2]}

VARIABLES
    endo,                     \* agent.state["endogenous"] of every agent
    market_price,             \* self.market.price
    timestep,                 \* self.world.timestep
    step_indicator,           \* self.step_indicator
    policy_interval,          \* ExecCircuitBreaker.policy_interval (an attribute; 1 as constructed)
    crash,                    \* self.crash
    random_stock_crash_start, \* self.random_stock_crash_start
    duration_crash,           \* self.duration_crash
    intensity_crash,          \* self.intensity_crash, a fraction [num, den]
    planner_mask,             \* the planner's mask of the last generate_masks()
    pc,                       \* position inside the environment step
    todo,                     \* agents get_random_order_agents() has yet to yield
    prev,                     \* endo just before the last operation (history)
    prev2,                    \* what prev was before the last agent turn (history)
    lastop,                   \* the last operation and its input (history)
    metric,                   \* the last reward / liquidity computation: inputs, csv row, outcome
    liq_importance,           \* self.liq_importance, a fraction [num, den]
    calls                     \* component_step calls made on a prepared world

vars == <<endo, market_price, timestep, step_indicator, policy_interval, crash,
          random_stock_crash_start, duration_crash, intensity_crash, planner_mask,
          pc, todo, prev, prev2, lastop, metric, liq_importance, calls>>

\* ------------------------------------------------------------ arithmetic
Zeros(n) == [i \in 1..n |-> 0]

RECURSIVE SumOver(_, _, _)
SumOver(s, S, field) ==
    IF S = {} THEN 0
    ELSE LET a == CHOOSE x \in S : TRUE
         IN  (IF field = "Demand" THEN s[a].Demand
              ELSE IF field = "Supply" THEN s[a].Supply
              ELSE s[a].NumberOfStocks)
             + SumOver(s, S \ {a}, field)

SeqMax(q) == CHOOSE m \in {q[i] : i \in DOMAIN q} : \A i \in DOMAIN q : q[i] <= m
SeqMinNonZero(q) ==
    LET nz == {q[i] : i \in DOMAIN q} \ {0}
    IN  CHOOSE m \in nz : \A x \in nz : m <= x

\* amount * (1 - transaction_cost), rounded down to a tick
LessCost(amount) ==
    LET q == amount \div TcDen
        r == amount % TcDen
    IN  (TcDen - TcNum) * q + ((TcDen - TcNum) * r) \div TcDen

\* amount * transaction_cost (exact for whole-unit amounts)
CostOf(amount) == (amount \div TcDen) * TcNum + ((amount % TcDen) * TcNum) \div TcDen

\* math.floor(n * (k * 0.10))
Tenths(n, k) == (n * k) \div 10

\* ------------------------------------------- BuyOrSellStocks.component_step
\* variant: the transaction cost is not set aside before dividing
max_stocks_buy_no_cost(available_funds, stock_price) ==
    available_funds \div stock_price

\* (available_funds - (available_funds * transaction_cost)) // stock_price
max_stocks_buy(available_funds, stock_price) ==
    LessCost(available_funds) \div stock_price

\* variant: the request is not capped by StocksLeft
stocks_to_buy_uncapped(available_funds, stock_price, action, stocks_left) ==
    Tenths(max_stocks_buy(available_funds, stock_price), action)

\* floor(max_stocks_buy * action * 0.10), capped by the agent's StocksLeft
stocks_to_buy(available_funds, stock_price, action, stocks_left) ==
    LET wanted == Tenths(max_stocks_buy(available_funds, stock_price), action)
    IN  IF wanted > stocks_left THEN stocks_left ELSE wanted

\* variant: the purchase is not charged the transaction cost
cost_to_buy_without_fee(stocks, stock_price) ==
    stocks * stock_price

\* (stocks * stock_price) + (stocks * stock_price * transaction_cost)
cost_to_buy(stocks, stock_price) ==
    (stocks * stock_price) + CostOf(stocks * stock_price)

\* variant: the sell fraction is taken from the raw action id
stocks_to_sell_raw_action(number_of_stocks, action) ==
    Tenths(number_of_stocks, action)

\* floor(number_of_stocks * (action - 10) * 0.10)
stocks_to_sell(number_of_stocks, action) ==
    Tenths(number_of_stocks, action - half_actions)

\* variant: the sale is charged the transaction cost twice
net_proceeds_cost_twice(stocks, stock_price) ==
    (stocks * stock_price) - 2 * CostOf(stocks * stock_price)

\* proceeds_from_sell - transaction_cost_amount
net_proceeds(stocks, stock_price) ==
    (stocks * stock_price) - CostOf(stocks * stock_price)

\* variant: holdings are valued without the transaction cost
balance_without_cost(available_funds, number_of_stocks, stock_price) ==
    available_funds + (number_of_stocks * stock_price)

\* AvailableFunds + (NumberOfStocks * StockPrice
\*                   - NumberOfStocks * StockPrice * transaction_cost)
recomputed_balance(available_funds, number_of_stocks, stock_price) ==
    available_funds + ((number_of_stocks * stock_price)
                       - CostOf(number_of_stocks * stock_price))

\* which arm of the if / elif chain an in-range action takes
branch(action, able_to_buy, able_to_sell) ==
    IF action = 0 THEN "hold"
    ELSE IF action <= half_actions /\ able_to_buy = 0 THEN "buy"
    ELSE IF half_actions < action /\ action <= no_actions /\ able_to_sell = 0
         THEN "sell"
    ELSE IF able_to_buy = 1 /\ able_to_sell = 1 THEN "penalty"
    ELSE "none"

\* variant: only Supply is cleared
hold_keeps_demand(e) == [e EXCEPT !.Supply = 0]

\* action == 0: Demand = 0.0, Supply = 0.0
hold(e) == [e EXCEPT !.Demand = 0, !.Supply = 0]

buy(e, action) ==
    LET n == stocks_to_buy(e.AvailableFunds, e.StockPrice, action, e.StocksLeft)
        funds == e.AvailableFunds - cost_to_buy(n, e.StockPrice)
        held == e.NumberOfStocks + n
    IN  [e EXCEPT !.AvailableFunds = funds,
                  !.NumberOfStocks = held,
                  !.TotalBalance = recomputed_balance(funds, held, e.StockPrice),
                  !.Demand = n,
                  !.Supply = 0]

\* variant: the shares sold go back to the pool but stay with the seller
sell_keeps_holding(e, action) ==
    LET n == stocks_to_sell(e.NumberOfStocks, action)
        funds == e.AvailableFunds + net_proceeds(n, e.StockPrice)
    IN  [e EXCEPT !.AvailableFunds = funds,
                  !.TotalBalance = recomputed_balance(funds, e.NumberOfStocks,
                                                      e.StockPrice),
                  !.Demand = 0,
                  !.Supply = n]

sell(e, action) ==
    LET n == stocks_to_sell(e.NumberOfStocks, action)
        funds == e.AvailableFunds + net_proceeds(n, e.StockPrice)
        held == e.NumberOfStocks - n
    IN  [e EXCEPT !.AvailableFunds = funds,
                  !.NumberOfStocks = held,
                  !.TotalBalance = recomputed_balance(funds, held, e.StockPrice),
                  !.Demand = 0,
                  !.Supply = n]

\* variant: a refused order is charged but leaves Demand and Supply alone
blocked_keeps_orders(e) ==
    [e EXCEPT !.TotalBalance = e.TotalBalance - penalty * TcDen]

\* both flags 1: TotalBalance -= 5000, Demand = 0.0, Supply = 0.0
blocked(e) ==
    [e EXCEPT !.TotalBalance = e.TotalBalance - penalty * TcDen,
              !.Demand = 0,
              !.Supply = 0]

\* for agent in self.world.agents: StocksLeft -= / += the traded quantity
pool_update(s, delta) ==
    [b \in Agents |-> [s[b] EXCEPT !.StocksLeft = s[b].StocksLeft + delta]]

\* variant: a trade changes only the trading agent's own copy of StocksLeft
agent_turn_own_copy(s, a, action) ==
    LET e == s[a]
        arm == branch(action, e.AbleToBuy, e.AbleToSell)
    IN  CASE arm = "hold"    -> [s EXCEPT ![a] = hold(e)]
          [] arm = "buy"     ->
                [s EXCEPT ![a] = [buy(e, action) EXCEPT
                                    !.StocksLeft = e.StocksLeft - buy(e, action).Demand]]
          [] arm = "sell"    ->
                [s EXCEPT ![a] = [sell(e, action) EXCEPT
                                    !.StocksLeft = e.StocksLeft + sell(e, action).Supply]]
          [] arm = "penalty" -> [s EXCEPT ![a] = blocked(e)]
          [] OTHER           -> s

\* one agent's turn of the loop, for an action in 0..no_actions
agent_turn(s, a, action) ==
    LET e == s[a]
        arm == branch(action, e.AbleToBuy, e.AbleToSell)
    IN  CASE arm = "hold"    -> [s EXCEPT ![a] = hold(e)]
          [] arm = "buy"     ->
                pool_update([s EXCEPT ![a] = buy(e, action)],
                            0 - (buy(e, action).Demand))
          [] arm = "sell"    ->
                pool_update([s EXCEPT ![a] = sell(e, action)],
                            sell(e, action).Supply)
          [] arm = "penalty" -> [s EXCEPT ![a] = blocked(e)]
          [] OTHER           -> s

\* variant: only the lower bound is tested
legal_action_no_upper_bound(action) == 0 <= action

legal_action(action) == 0 <= action /\ action <= no_actions

\* ---------------------------------------- ExecCircuitBreaker.component_step
\* variant: the interval is not consulted
decision_every_step(t, interval) == TRUE

\* (self.world.timestep - 1) % self.policy_interval == 0
decision_step(t, interval) == (t - 1) % interval = 0

\* variant: only one agent's flags are written
set_flags_one_agent(s, v) ==
    [a \in Agents |-> IF a = CHOOSE b \in Agents : \A c \in Agents : b <= c
                      THEN [s[a] EXCEPT !.AbleToBuy = v, !.AbleToSell = v]
                      ELSE s[a]]

set_flags(s, v) ==
    [a \in Agents |-> [s[a] EXCEPT !.AbleToBuy = v, !.AbleToSell = v]]

\* variant: the two planner actions are exchanged
circuit_breaker_swapped(s, planner_action, t, interval) ==
    IF planner_action = 0 /\ decision_step(t, interval) THEN set_flags(s, 1)
    ELSE IF planner_action = 1 /\ decision_step(t, interval) THEN set_flags(s, 0)
    ELSE s

circuit_breaker(s, planner_action, t, interval) ==
    IF planner_action = 0 /\ decision_step(t, interval) THEN set_flags(s, 0)
    ELSE IF planner_action = 1 /\ decision_step(t, interval) THEN set_flags(s, 1)
    ELSE s

\* variant: only the lower bound is tested
legal_planner_action_no_upper_bound(planner_action) == 0 <= planner_action

legal_planner_action(planner_action) ==
    0 <= planner_action /\ planner_action <= planner_no_actions

\* ------------------------------------------ ExecCircuitBreaker.generate_masks
default_planner_action_mask == [i \in 1..planner_no_actions |-> 1]
no_op_planner_action_mask == [i \in 1..planner_no_actions |-> 0]

\* variant: the mask is open one step late
generate_masks_late(t, interval) ==
    IF (t - 1) % interval = 0 THEN default_planner_action_mask
                              ELSE no_op_planner_action_mask

\* self.world.timestep % self.policy_interval == 0
generate_masks(t, interval) ==
    IF t % interval = 0 THEN default_planner_action_mask
                        ELSE no_op_planner_action_mask

\* variant: StocksLeft keeps the zero the wipe of the fields wrote
reset_agent_empty_pool(starting_funds, price) ==
    [ TotalBalance      |-> starting_funds,
      AvailableFunds    |-> starting_funds,
      StartingFunds     |-> starting_funds,
      NumberOfStocks    |-> 0,
      Demand            |-> 0,
      Supply            |-> 0,
      AbleToBuy         |-> 1,
      AbleToSell        |-> 1,
      StocksLeft        |-> 0,
      StockPrice        |-> price,
      StockPriceHigh    |-> price,
      StockPriceLow     |-> price,
      StockPriceHistory |-> [Zeros(stock_price_history_length) EXCEPT ![1] = price],
      Volumes           |-> Zeros(stock_price_history_length) ]

\* ------------------------------ StockMarketSimulation.reset_agent_states
reset_agent(starting_funds, price) ==
    [ TotalBalance      |-> starting_funds,
      AvailableFunds    |-> starting_funds,
      StartingFunds     |-> starting_funds,
      NumberOfStocks    |-> 0,
      Demand            |-> 0,
      Supply            |-> 0,
      AbleToBuy         |-> 1,
      AbleToSell        |-> 1,
      StocksLeft        |-> stock_quantity,
      StockPrice        |-> price,
      StockPriceHigh    |-> price,
      StockPriceLow     |-> price,
      StockPriceHistory |-> [Zeros(stock_price_history_length) EXCEPT ![1] = price],
      Volumes           |-> Zeros(stock_price_history_length) ]

reset_agent_states(funds, price, start, duration, intensity) ==
    /\ crash' = FALSE
    /\ random_stock_crash_start' = start
    /\ intensity_crash' = intensity
    /\ duration_crash' = duration
    /\ step_indicator' = 0
    /\ market_price' = price
    /\ endo' = [a \in Agents |-> reset_agent(funds[a], price)]

\* variant: the block for a running crash never clears the flag
crash_update_never_cleared(si, start, is_crash, duration) ==
    LET starts == si = start
        d1 == IF starts THEN duration - 1 ELSE duration
        c1 == IF starts THEN d1 # 0 ELSE is_crash
        d2 == IF c1 THEN d1 - 1 ELSE d1
        shocks == (IF starts THEN 1 ELSE 0) + (IF c1 THEN 1 ELSE 0)
    IN  [crash |-> c1, duration |-> d2, shocks |-> shocks,
         first |-> starts, second |-> c1]

\* variant: the crash starts on every step from the drawn one on
crash_update_restarts(si, start, is_crash, duration) ==
    LET starts == si >= start
        d1 == IF starts THEN duration - 1 ELSE duration
        c1 == IF starts THEN d1 # 0 ELSE is_crash
        d2 == IF c1 THEN d1 - 1 ELSE d1
        c2 == IF c1 THEN d2 # 0 ELSE c1
        shocks == (IF starts THEN 1 ELSE 0) + (IF c1 THEN 1 ELSE 0)
    IN  [crash |-> c2, duration |-> d2, shocks |-> shocks,
         first |-> starts, second |-> c1]

\* ------------------------------------ StockMarketSimulation.scenario_step
\* crash flag and remaining duration after the two crash blocks
crash_update(si, start, is_crash, duration) ==
    LET starts == si = start
        d1 == IF starts THEN duration - 1 ELSE duration
        c1 == IF starts THEN d1 # 0 ELSE is_crash
        d2 == IF c1 THEN d1 - 1 ELSE d1
        c2 == IF c1 THEN d2 # 0 ELSE c1
        shocks == (IF starts THEN 1 ELSE 0) + (IF c1 THEN 1 ELSE 0)
    IN  [crash |-> c2, duration |-> d2, shocks |-> shocks,
         first |-> starts, second |-> c1]

Times(x, y) == [num |-> x.num * y.num, den |-> x.den * y.den]
One == [num |-> 1, den |-> 1]

\* self.intensity_crash after the step: decayed once if the second block runs
intensity_update(cu, intensity, decay) ==
    IF cu.second THEN Times(intensity, decay) ELSE intensity

\* the factor the two crash blocks multiply the market price by
crash_factor(cu, intensity, decay) ==
    Times(IF cu.first THEN intensity ELSE One,
          IF cu.second THEN Times(intensity, decay) ELSE One)

\* the price the crash blocks leave in self.market.price, in ticks
shocked(price, factor) == (price * factor.num) \div factor.den

\* variant: the supply is subtracted from the quotient
order_flow_minus(total_supply, total_demand) ==
    IF total_demand + total_supply > 0
    THEN [num |-> (total_demand - total_supply) - total_supply * total_demand,
          den |-> total_demand]
    ELSE [num |-> 0, den |-> 1]

\* StockMarket.nextstep: p = (demand - supply) / demand+supply, else 0
order_flow(total_supply, total_demand) ==
    IF total_demand + total_supply > 0
    THEN [num |-> (total_demand - total_supply) + total_supply * total_demand,
          den |-> total_demand]
    ELSE [num |-> 0, den |-> 1]

\* new_price = price * factor * (1 + 0.5 * r + 0.5 * p) for a return r > -1,
\* that is 2 * new_price > price * factor * (1 + p); prices in ticks of whole
\* units, p.den > 0
producible(price, new_price, factor, p) ==
    2 * (new_price \div TcDen) * factor.den * p.den
        > (price \div TcDen) * factor.num * (p.den + p.num)

\* StockMarket.nextstep divides by demand whenever demand + supply > 0
nextstep_raises(total_supply, total_demand) ==
    total_demand + total_supply > 0 /\ total_demand = 0

\* variant: the step writes its price over the previous entry
update_agent_previous_slot(e, price, si, volume) ==
    LET hist == [e.StockPriceHistory EXCEPT ![si] = price]
    IN  [e EXCEPT !.StockPrice = price,
                  !.StockPriceHistory = hist,
                  !.StockPriceHigh = SeqMax(hist),
                  !.StockPriceLow = SeqMinNonZero(hist),
                  !.Volumes = [e.Volumes EXCEPT ![si + 1] = volume]]

update_agent(e, price, si, volume) ==
    LET hist == [e.StockPriceHistory EXCEPT ![si + 1] = price]
    IN  [e EXCEPT !.StockPrice = price,
                  !.StockPriceHistory = hist,
                  !.StockPriceHigh = SeqMax(hist),
                  !.StockPriceLow = SeqMinNonZero(hist),
                  !.Volumes = [e.Volumes EXCEPT ![si + 1] = volume]]

\* ------------------------------------------------- the liquidity metric
\* rewards.py: the planner's liquidity score. Volumes are whole numbers of
\* shares; an average and a score are exact fractions [num, den], den > 0.
MetricLength == 3
VolumeValues == {0, 5, 10}
VolumeHistories == UNION {[1..n -> VolumeValues] : n \in 1..MetricLength}

RECURSIVE SumFirst(_, _)
SumFirst(volumes, n) ==
    IF n <= 0 THEN 0 ELSE volumes[n] + SumFirst(volumes, n - 1)

\* np.average(volumes[a:b]) for 0 <= a < b <= len(volumes) (python slice:
\* elements a .. b-1, here the 1-based positions a+1 .. b)
average(volumes, a, b) ==
    [num |-> SumFirst(volumes, b) - SumFirst(volumes, a), den |-> b - a]

volume_comparer(volume_average, volume_today) ==
    IF volume_today * volume_average.den >= volume_average.num
    THEN [num |-> 1, den |-> 1]
    ELSE IF volume_average.num > 0
    THEN [num |-> volume_today * volume_average.den,
          den |-> volume_average.num]
    ELSE [num |-> 1, den |-> 1]

planner_metric_liquidity(volume_today, volumes, index) ==
    IF index > 0
    THEN volume_comparer(average(volumes, 0, index), volume_today)
    ELSE IF index >= 10
    THEN volume_comparer(average(volumes, index - 10, index), volume_today)
    ELSE [num |-> 0, den |-> 1]

\* no liquidity score has been computed yet
NoMetric ==
    [call |-> "none", volume_today |-> 0, volumes |-> <<0>>, index |-> 0,
     row |-> <<>>, raised |-> FALSE, score |-> [num |-> 0, den |-> 1]]

\* liq_importance as configured: the reward computation returns only for 0
LiqImportances == {[num |-> 0, den |-> 1], [num |-> 1, den |-> 2]}

\* get_current_optimization_metrics (compute_reward, additional_reset_steps):
\* planner_reward_total(prices, volumes, volume_today, index) is called with
\* (step_indicator, Volumes, Volumes, liq_importance), Volumes being those of
\* agents[0]. planner_metric_stability raises for index > 1 (it subscripts
\* the integer it is given as prices) and returns 0.0 otherwise; then
\* planner_metric_liquidity appends the whole Volumes array as one csv row
\* and raises TypeError on volumes[:index] for a fractional index > 0, or
\* returns 0.0 for index 0.
get_current_optimization_metrics(s, liq) ==
    LET first == CHOOSE a \in Agents : \A b \in Agents : a <= b
        volumes == s[first].Volumes
    IN  [call |-> "environment", volume_today |-> volumes, volumes |-> volumes,
         index |-> liq,
         row |-> IF liq.num > liq.den THEN <<>> ELSE <<volumes>>,
         raised |-> liq.num > 0,
         score |-> [num |-> 0, den |-> 1]]

\* ------------------------------------------------------------------ actions
InitDraw(intervals, starts, durations) ==
    /\ \E funds \in FundDraws, price \in Prices,
          start \in starts, duration \in durations,
          intensity \in Intensities :
          /\ crash = FALSE
          /\ random_stock_crash_start = start
          /\ intensity_crash = intensity
          /\ duration_crash = duration
          /\ step_indicator = 0
          /\ market_price = price
          /\ endo = [a \in Agents |-> reset_agent(funds[a], price)]
    /\ timestep = 0
    /\ policy_interval \in intervals
    /\ planner_mask = generate_masks(0, policy_interval)
    /\ liq_importance \in LiqImportances
    /\ metric = get_current_optimization_metrics(endo, liq_importance)
    /\ pc = IF metric.raised THEN "error" ELSE "idle"
    /\ calls = 0
    /\ todo = {}
    /\ prev = endo
    /\ prev2 = endo
    /\ lastop = [op |-> "reset", agent |-> 0, action |-> 0]

InitWith(intervals) == InitDraw(intervals, CrashStarts, CrashDurations)

Init == InitWith(1..MaxInterval)

\* env.reset(): a new episode, between steps or after a step that raised
ResetDraw(starts, durations) ==
    /\ pc \in {"idle", "error"}
    /\ \E funds \in FundDraws, price \in Prices,
          start \in starts, duration \in durations,
          intensity \in Intensities :
          reset_agent_states(funds, price, start, duration, intensity)
    /\ timestep' = 0
    /\ planner_mask' = generate_masks(0, policy_interval)
    /\ metric' = get_current_optimization_metrics(endo', liq_importance)
    /\ pc' = IF metric'.raised THEN "error" ELSE "idle"
    /\ todo' = {}
    /\ prev' = endo'
    /\ prev2' = endo'
    /\ UNCHANGED <<liq_importance, calls>>
    /\ lastop' = [op |-> IF crash /\ \E a \in Agents : endo[a].NumberOfStocks > 0
                            THEN "reset_mid_crash" ELSE "reset",
                   agent |-> 0, action |-> 0]
    /\ UNCHANGED policy_interval

Reset == ResetDraw(CrashStarts, CrashDurations)

\* env.step() advances the world clock before the components run
Begin(horizon) ==
    /\ pc = "idle"
    /\ timestep < horizon
    /\ timestep' = timestep + 1
    /\ pc' = "cb"
    /\ UNCHANGED <<endo, market_price, step_indicator, policy_interval, crash,
                   random_stock_crash_start, duration_crash, intensity_crash,
                   planner_mask, todo, prev, prev2, lastop, metric,
                   liq_importance, calls>>

BeginStep == Begin(MaxSteps)

CircuitBreakerStep(planner_action) ==
    /\ pc = "cb"
    /\ legal_planner_action(planner_action)
    /\ endo' = circuit_breaker(endo, planner_action, timestep, policy_interval)
    /\ pc' = "orders"
    /\ todo' = Agents
    /\ prev' = endo
    /\ UNCHANGED <<prev2, metric, liq_importance, calls>>
    /\ lastop' = [op |-> "cb", agent |-> 0, action |-> planner_action]
    /\ UNCHANGED <<market_price, timestep, step_indicator, policy_interval, crash,
                   random_stock_crash_start, duration_crash, intensity_crash,
                   planner_mask>>

CircuitBreakerError(planner_action) ==
    /\ pc = "cb"
    /\ ~legal_planner_action(planner_action)
    /\ pc' = "error"
    /\ prev' = endo
    /\ UNCHANGED <<prev2, metric, liq_importance, calls>>
    /\ lastop' = [op |-> "cb_error", agent |-> 0, action |-> planner_action]
    /\ UNCHANGED <<endo, market_price, timestep, step_indicator, policy_interval,
                   crash, random_stock_crash_start, duration_crash, intensity_crash,
                   planner_mask, todo>>

OrderTurn(a, action) ==
    /\ pc = "orders"
    /\ a \in todo
    /\ legal_action(action)
    /\ endo' = agent_turn(endo, a, action)
    /\ todo' = todo \ {a}
    /\ pc' = IF todo' = {} THEN "scenario" ELSE "orders"
    /\ prev' = endo
    /\ prev2' = prev
    /\ UNCHANGED <<metric, liq_importance, calls>>
    /\ lastop' = [op |-> "order", agent |-> a, action |-> action]
    /\ UNCHANGED <<market_price, timestep, step_indicator, policy_interval, crash,
                   random_stock_crash_start, duration_crash, intensity_crash,
                   planner_mask>>

OrderError(a, action) ==
    /\ pc = "orders"
    /\ a \in todo
    /\ ~legal_action(action)
    /\ pc' = "error"
    /\ prev' = endo
    /\ UNCHANGED <<prev2, metric, liq_importance, calls>>
    /\ lastop' = [op |-> "order_error", agent |-> a, action |-> action]
    /\ UNCHANGED <<endo, market_price, timestep, step_indicator, policy_interval,
                   crash, random_stock_crash_start, duration_crash, intensity_crash,
                   planner_mask, todo>>

\* The random return of nextstep is a continuous draw: the step is modelled by
\* the price it produces, new_price, any candidate that some return r > -1
\* produces from the price left by the crash blocks.  The observation at the
\* end of the step regenerates the planner's mask.
ScenarioStep(new_price, decay) ==
    LET si == step_indicator + 1
        cu == crash_update(si, random_stock_crash_start, crash, duration_crash)
        total_demand == SumOver(endo, Agents, "Demand")
        total_supply == SumOver(endo, Agents, "Supply")
        volume == total_supply + total_demand
    IN  /\ pc = "scenario"
        /\ ~nextstep_raises(total_supply, total_demand)
        /\ producible(market_price, new_price,
                      crash_factor(cu, intensity_crash, decay),
                      order_flow(total_supply, total_demand))
        /\ step_indicator' = si
        /\ crash' = cu.crash
        /\ duration_crash' = cu.duration
        /\ intensity_crash' = intensity_update(cu, intensity_crash, decay)
        /\ planner_mask' = generate_masks(timestep, policy_interval)
        /\ market_price' = new_price
        /\ endo' = [a \in Agents |-> update_agent(endo[a], new_price, si, volume)]
        /\ metric' = get_current_optimization_metrics(endo', liq_importance)
        /\ pc' = IF metric'.raised THEN "error" ELSE "idle"
        /\ prev' = endo
        /\ UNCHANGED <<prev2, liq_importance, calls>>
        /\ lastop' = [op |-> "scenario", agent |-> 0, action |-> 0]
        /\ UNCHANGED <<timestep, policy_interval, random_stock_crash_start, todo>>

\* nextstep raises ZeroDivisionError: the step stops after the crash blocks,
\* before any agent field is written.
ScenarioError(decay) ==
    LET si == step_indicator + 1
        cu == crash_update(si, random_stock_crash_start, crash, duration_crash)
        total_demand == SumOver(endo, Agents, "Demand")
        total_supply == SumOver(endo, Agents, "Supply")
    IN  /\ pc = "scenario"
        /\ nextstep_raises(total_supply, total_demand)
        /\ step_indicator' = si
        /\ crash' = cu.crash
        /\ duration_crash' = cu.duration
        /\ intensity_crash' = intensity_update(cu, intensity_crash, decay)
        /\ market_price' = shocked(market_price,
                                   crash_factor(cu, intensity_crash, decay))
        /\ pc' = "error"
        /\ prev' = endo
        /\ UNCHANGED <<prev2, metric, liq_importance, calls>>
        /\ lastop' = [op |-> "scenario_error", agent |-> 0, action |-> 0]
        /\ UNCHANGED <<endo, timestep, policy_interval, random_stock_crash_start,
                       planner_mask, todo>>

Next ==
    \/ Reset
    \/ BeginStep
    \/ \E planner_action \in PlannerActions : CircuitBreakerStep(planner_action)
    \/ \E planner_action \in PlannerActions : CircuitBreakerError(planner_action)
    \/ \E a \in Agents, action \in AgentActions : OrderTurn(a, action)
    \/ \E a \in Agents, action \in AgentActions : OrderError(a, action)
    \/ \E new_price \in StepPrices, decay \in Decays : ScenarioStep(new_price, decay)
    \/ \E decay \in Decays : ScenarioError(decay)

Spec == Init /\ [][Next]_vars

\* Longer episodes in which every agent holds (or sends an illegal action):
\* the circuit breaker reads no order, so its schedule is the same.
QuietActions == {0, no_actions + 1}
BeginQuietStep == Begin(MaxQuietSteps)

NextQuiet ==
    \/ Reset
    \/ BeginQuietStep
    \/ \E planner_action \in PlannerActions : CircuitBreakerStep(planner_action)
    \/ \E planner_action \in PlannerActions : CircuitBreakerError(planner_action)
    \/ \E a \in Agents, action \in QuietActions : OrderTurn(a, action)
    \/ \E a \in Agents, action \in QuietActions : OrderError(a, action)
    \/ \E new_price \in StepPrices, decay \in Decays : ScenarioStep(new_price, decay)

InitQuiet == InitWith(1..MaxQuietInterval)

SpecQuiet == InitQuiet /\ [][NextQuiet]_vars

\* Episodes long enough to follow every drawn crash to its end: every crash
\* start in 0..MaxCrashStart and duration in 1..MaxCrashDuration, agents hold
\* and the planner's action is legal, so no step raises.
CrashStartDraws == 0..MaxCrashStart
CrashDurationDraws == 1..MaxCrashDuration
InitCrash == InitDraw({1}, CrashStartDraws, CrashDurationDraws)
ResetCrash == ResetDraw(CrashStartDraws, CrashDurationDraws)
BeginCrashStep == Begin(CrashHorizon)

StepCrash ==
    \/ BeginCrashStep
    \/ \E planner_action \in 0..planner_no_actions : CircuitBreakerStep(planner_action)
    \/ \E a \in Agents : OrderTurn(a, 0)
    \/ \E new_price \in Prices, decay \in Decays : ScenarioStep(new_price, decay)

NextCrash == ResetCrash \/ StepCrash

\* env.step() runs to its end once called, and the episode is stepped until
\* its horizon; when reset is called is up to the caller
SpecCrash == InitCrash /\ [][NextCrash]_vars /\ WF_vars(StepCrash)

\* Calls of BuyOrSellStocks.component_step on a prepared world, with no
\* scenario step (so no price change) between two calls: one agent trades, the
\* others hold.
MaxUnitCalls == 2
UnitFundUnits == {2500, 10000}
UnitPriceUnits == {100, 300}
UnitPools == {20, 200}
UnitActions == 0..no_actions
Trader == CHOOSE a \in Agents : \A b \in Agents : a <= b

InitUnit ==
    /\ \E funds \in UnitFundUnits, price \in UnitPriceUnits, pool \in UnitPools,
          flag \in {0, 1} :
          /\ market_price = price * TcDen
          /\ endo = [a \in Agents |->
                        [reset_agent(funds * TcDen, price * TcDen)
                            EXCEPT !.StocksLeft = pool,
                                   !.AbleToBuy = flag, !.AbleToSell = flag]]
    /\ crash = FALSE
    /\ random_stock_crash_start \in CrashStarts
    /\ intensity_crash \in Intensities
    /\ duration_crash \in CrashDurations
    /\ step_indicator = 0
    /\ timestep = 1
    /\ policy_interval = 1
    /\ planner_mask = generate_masks(0, policy_interval)
    /\ pc = "orders"
    /\ todo = Agents
    /\ prev = endo
    /\ prev2 = endo
    /\ metric = NoMetric
    /\ liq_importance = [num |-> 0, den |-> 1]
    /\ calls = 1
    /\ lastop = [op |-> "reset", agent |-> 0, action |-> 0]

\* component_step is called once more on the same world; the component
\* does not touch the world clock
UnitCall ==
    /\ pc = "scenario"
    /\ calls < MaxUnitCalls
    /\ calls' = calls + 1
    /\ pc' = "orders"
    /\ todo' = Agents
    /\ UNCHANGED <<endo, market_price, timestep, step_indicator, policy_interval,
                   crash, random_stock_crash_start, duration_crash,
                   intensity_crash, planner_mask, prev, prev2, lastop, metric,
                   liq_importance>>

NextUnit ==
    \/ UnitCall
    \/ \E action \in UnitActions : OrderTurn(Trader, action)
    \/ \E a \in Agents \ {Trader} : OrderTurn(a, 0)

SpecUnit == InitUnit /\ [][NextUnit]_vars

\* ------------------------------------------------- the market object alone
\* StockMarket.nextsteprandom(): self.price = self.price * (1 + r) for a
\* drawn return r, whatever the environment is doing; the scenario has its
\* call commented out (scenario_step), so only a caller holding env.market
\* reaches it. No agent field and no counter is touched. As in the price
\* step the return is taken to be r > -1, so a positive price stays positive.
NextStepRandom(new_price) ==
    /\ IF market_price > 0 THEN new_price > 0 ELSE new_price = market_price
    /\ market_price' = new_price
    /\ UNCHANGED <<endo, timestep, step_indicator, policy_interval, crash,
                   random_stock_crash_start, duration_crash, intensity_crash,
                   planner_mask, pc, todo, prev, prev2, lastop, metric,
                   liq_importance, calls>>

NextMarket ==
    \/ NextQuiet
    \/ \E new_price \in StepPrices : NextStepRandom(new_price)

SpecMarket == InitQuiet /\ [][NextMarket]_vars

TypeOK ==
    /\ pc \in {"idle", "cb", "orders", "scenario", "error"}
    /\ planner_mask \in {default_planner_action_mask, no_op_planner_action_mask}
    /\ intensity_crash.num > 0 /\ intensity_crash.den > 0
    /\ timestep \in 0..MaxSteps
    /\ step_indicator \in 0..MaxSteps
    /\ todo \subseteq Agents

\* ------------------------------------------------- the last agent turn
Turn == lastop.op = "order"
Before == prev[lastop.agent]
After == endo[lastop.agent]
BuyAction == lastop.action \in 1..half_actions
SellAction == lastop.action \in (half_actions + 1)..no_actions
\* what a buy would ask for, before the pool cap
Wanted == Tenths(max_stocks_buy(Before.AvailableFunds, Before.StockPrice), lastop.action)
\* the arm of the executor the last turn took
Arm == branch(lastop.action, Before.AbleToBuy, Before.AbleToSell)
NothingTransferred ==
    /\ After.AvailableFunds = Before.AvailableFunds
    /\ After.NumberOfStocks = Before.NumberOfStocks
    /\ After.StocksLeft = Before.StocksLeft

\* C1: in every reachable state, also between two agents' orders of one
\* step, every copy of the shared pool satisfies 0 <= StocksLeft <= stock_quantity.
C1_PoolWithinBounds ==
    \A a \in Agents : 0 <= endo[a].StocksLeft /\ endo[a].StocksLeft <= stock_quantity

\* a buy that asked for more than the pool held emptied the pool
C1_Witness ==
    /\ Turn /\ BuyAction /\ Arm = "buy"
    /\ Wanted > Before.StocksLeft
    /\ Before.StocksLeft > 0
    /\ After.StocksLeft = 0

\* C2: a buy is executed only for an agent whose AbleToBuy is 1 and a sell only
\* for an agent whose AbleToSell is 1; with the flag at 1 and funds / stock at
\* hand the order transfers funds and stock, with the flag at 0 it transfers
\* nothing.
C2_FlagSetGatesOrders ==
    Turn =>
      /\ (BuyAction /\ Before.AbleToBuy = 0) => NothingTransferred
      /\ (SellAction /\ Before.AbleToSell = 0) => NothingTransferred
      /\ (BuyAction /\ Before.AbleToBuy = 1 /\ Wanted > 0 /\ Before.StocksLeft > 0)
            => /\ After.AvailableFunds < Before.AvailableFunds
               /\ After.NumberOfStocks > Before.NumberOfStocks
      /\ (SellAction /\ Before.AbleToSell = 1
            /\ Tenths(Before.NumberOfStocks, lastop.action - half_actions) > 0)
            => /\ After.AvailableFunds > Before.AvailableFunds
               /\ After.NumberOfStocks < Before.NumberOfStocks

\* C3: in the first step after reset, with the flags still 1 as reset left them
\* (Open), a buy by an agent with sufficient funds against a non-empty pool is
\* executed: funds decrease, holdings increase, the pool decreases.
C3_OpenAfterReset ==
    (Turn /\ timestep = 1 /\ BuyAction
          /\ Before.AbleToBuy = 1 /\ Before.AbleToSell = 1
          /\ Wanted > 0 /\ Before.StocksLeft > 0)
      => /\ After.AvailableFunds < Before.AvailableFunds
         /\ After.NumberOfStocks > Before.NumberOfStocks
         /\ After.StocksLeft < Before.StocksLeft

\* C4: a buy or sell action that the eligibility flags keep from being executed
\* sets the agent's Demand and Supply to 0 and leaves AvailableFunds,
\* NumberOfStocks, TotalBalance and StocksLeft unchanged.
C4_RefusedOrderChangesNothing ==
    (Turn /\ (BuyAction \/ SellAction) /\ Arm \notin {"buy", "sell"})
      => /\ After.Demand = 0 /\ After.Supply = 0
         /\ NothingTransferred
         /\ After.TotalBalance = Before.TotalBalance

\* C5: AvailableFunds >= 0 in every reachable state, and an executed buy that
\* starts from AvailableFunds >= 0 at a positive price ends with
\* AvailableFunds >= 0, also when the grant is capped by StocksLeft.
C5_FundsNeverNegative ==
    /\ \A a \in Agents : endo[a].AvailableFunds >= 0
    /\ (Turn /\ BuyAction /\ Arm = "buy"
             /\ Before.AvailableFunds >= 0 /\ Before.StockPrice > 0)
          => After.AvailableFunds >= 0

\* an executed buy, capped by the pool, that spent funds
C5_Witness ==
    /\ Turn /\ BuyAction /\ Arm = "buy"
    /\ Wanted > Before.StocksLeft
    /\ After.Demand = Before.StocksLeft
    /\ After.Demand > 0
    /\ After.AvailableFunds < Before.AvailableFunds
    /\ After.AvailableFunds >= 0

\* C6: NumberOfStocks >= 0 in every reachable state, and a sell never parts
\* with more than the agent held.
C6_HoldingsNeverNegative ==
    /\ \A a \in Agents : endo[a].NumberOfStocks >= 0
    /\ (Turn /\ SellAction /\ Arm = "sell")
          => /\ After.Supply <= Before.NumberOfStocks
             /\ After.NumberOfStocks = Before.NumberOfStocks - After.Supply

\* a full sell of a non-empty holding
C6_Witness ==
    /\ Turn /\ lastop.action = no_actions /\ Arm = "sell"
    /\ Before.NumberOfStocks > 0
    /\ After.Supply = Before.NumberOfStocks
    /\ After.NumberOfStocks = 0

\* AvailableFunds + NumberOfStocks * StockPrice * (1 - transaction_cost) in
\* ticks; a price is a whole number of TcDen ticks
ValueAtPrice(e) ==
    e.AvailableFunds
      + e.NumberOfStocks * (e.StockPrice \div TcDen) * (TcDen - TcNum)

\* C7: right after an executed buy or sell, TotalBalance equals
\* AvailableFunds + NumberOfStocks * StockPrice * (1 - transaction_cost),
\* computed from the values after the trade, whatever TotalBalance was before.
C7_BalanceRecomputed ==
    (Turn /\ Arm \in {"buy", "sell"})
      => After.TotalBalance = ValueAtPrice(After)

\* a trade by an agent whose TotalBalance had drifted from that value before
C7_Witness ==
    /\ Turn /\ Arm \in {"buy", "sell"}
    /\ After.Demand + After.Supply > 0
    /\ Before.TotalBalance # ValueAtPrice(Before)
    /\ After.TotalBalance = ValueAtPrice(After)

\* C8: action 0, under any flags, leaves AvailableFunds, NumberOfStocks,
\* TotalBalance and StocksLeft as they were, sets the agent's Demand and Supply
\* to 0, touches no other agent, and a second hold changes nothing more.
C8_HoldIsNoOp ==
    (Turn /\ lastop.action = 0)
      => /\ NothingTransferred
         /\ After.TotalBalance = Before.TotalBalance
         /\ After.Demand = 0 /\ After.Supply = 0
         /\ \A b \in Agents \ {lastop.agent} : endo[b] = prev[b]
         /\ agent_turn(endo, lastop.agent, 0) = endo

\* a hold that cleared the demand left by the agent's buy of the step before
C8_Witness ==
    /\ Turn /\ lastop.action = 0
    /\ Before.Demand > 0
    /\ Before.AbleToBuy = 0
    /\ After.Demand = 0
    /\ After.NumberOfStocks = Before.NumberOfStocks

\* C9: when the circuit breaker runs on a decision step (step_indicator a
\* multiple of policy_interval), planner action 0 leaves every agent with
\* AbleToBuy = AbleToSell = 0 and planner action 1 with AbleToBuy =
\* AbleToSell = 1, whatever the flags were.
C9_DecisionSetsAllFlags ==
    (lastop.op = "cb" /\ step_indicator % policy_interval = 0)
      => \A a \in Agents : /\ endo[a].AbleToBuy = lastop.action
                           /\ endo[a].AbleToSell = lastop.action

\* planner action 1 on a decision step, taken while the flags were 0
C9_Witness ==
    /\ lastop.op = "cb" /\ lastop.action = 1
    /\ step_indicator % policy_interval = 0
    /\ \A a \in Agents : prev[a].AbleToBuy = 0 /\ prev[a].AbleToSell = 0
    /\ \A a \in Agents : endo[a].AbleToBuy = 1 /\ endo[a].AbleToSell = 1

\* C10: when the circuit breaker runs on a step that is not a decision step
\* (step_indicator not a multiple of policy_interval) no flag changes, whatever
\* the planner submits; agent turns and the scenario step never change a flag.
C10_FlagsKeptOffDecisionSteps ==
    /\ (lastop.op = "cb" /\ step_indicator % policy_interval # 0)
          => \A a \in Agents : /\ endo[a].AbleToBuy = prev[a].AbleToBuy
                               /\ endo[a].AbleToSell = prev[a].AbleToSell
    /\ (lastop.op \in {"order", "order_error", "cb_error", "scenario", "scenario_error"})
          => \A a \in Agents : /\ endo[a].AbleToBuy = prev[a].AbleToBuy
                               /\ endo[a].AbleToSell = prev[a].AbleToSell

\* off a decision step the planner asked for the opposite of the current flags
C10_Witness ==
    /\ lastop.op = "cb"
    /\ step_indicator % policy_interval # 0
    /\ \A a \in Agents : /\ prev[a].AbleToBuy # lastop.action
                         /\ endo[a].AbleToBuy = prev[a].AbleToBuy
                         /\ endo[a].AbleToSell = prev[a].AbleToSell
\* ------------------------------------------------- the planner's schedule
AllFlags(e, value) ==
    \A a \in Agents : e[a].AbleToBuy = value /\ e[a].AbleToSell = value
MaskOpen == planner_mask = default_planner_action_mask

\* C11: with an interval n > 1, the planner's mask is all-zero exactly when the
\* number of completed steps is not a multiple of n, and a circuit-breaker
\* step applies the planner's action to every agent exactly when the mask that
\* offered it was open; under a zero mask the flags persist.
C11_MaskAndDecisionCoincide ==
    policy_interval > 1 =>
        /\ MaskOpen <=> (step_indicator % policy_interval = 0)
        /\ lastop.op = "cb" =>
               IF MaskOpen THEN AllFlags(endo, lastop.action)
                           ELSE endo = prev

\* interval 3: after steps 1 and 2 under a zero mask, the decision taken at
\* step 3 re-closes trading for every agent
C11_Witness ==
    /\ policy_interval = 3
    /\ step_indicator = 3
    /\ lastop.op = "cb"
    /\ lastop.action = 1
    /\ AllFlags(prev, 0)
    /\ AllFlags(endo, 1)

\* C12: there is no per-agent circuit-breaker state: in every reachable state,
\* so after a reset and after every circuit-breaker step, all agents have the
\* same AbleToBuy and the same AbleToSell.
C12_FlagsUniform ==
    \A a, b \in Agents : /\ endo[a].AbleToBuy = endo[b].AbleToBuy
                         /\ endo[a].AbleToSell = endo[b].AbleToSell

\* a circuit-breaker step has just moved several agents from 1 to 0
C12_Witness ==
    /\ lastop.op = "cb" /\ lastop.action = 0
    /\ Cardinality(Agents) > 1
    /\ AllFlags(prev, 1)
    /\ AllFlags(endo, 0)

\* ------------------------------------------------- the last price step
\* the totals scenario_step summed over the agents and handed to nextstep
StepDemand == SumOver(prev, Agents, "Demand")
StepSupply == SumOver(prev, Agents, "Supply")

\* C13: the imbalance p a completed price step used is (demand - supply) /
\* (demand + supply) when demand + supply > 0 and 0 otherwise, so that
\* -1 <= p <= 1, and p < 0 whenever supply > demand.
C13_ImbalanceNormalised ==
    lastop.op = "scenario" =>
        LET p == order_flow(StepSupply, StepDemand)
        IN  /\ StepDemand + StepSupply > 0
                  => p.num * (StepDemand + StepSupply) = (StepDemand - StepSupply) * p.den
            /\ StepDemand + StepSupply = 0 => p.num = 0
            /\ -p.den <= p.num /\ p.num <= p.den
            /\ StepSupply > StepDemand => p.num < 0

\* C14: the price step is total: whatever the aggregated demand and supply,
\* also demand = 0 with supply > 0, it completes and yields a new price, so no
\* scenario step ends in an error.
C14_PriceStepTotal ==
    /\ lastop.op # "scenario_error"
    /\ pc = "scenario" => ~nextstep_raises(SumOver(endo, Agents, "Supply"),
                                           SumOver(endo, Agents, "Demand"))

\* C15: the price is strictly positive in every reachable state: price steps
\* with returns r > -1, whatever the demand and supply, and crash activations
\* and decays in between never bring the market's price, or the copy of it an
\* agent holds, to zero or below.
C15_PricePositive ==
    /\ market_price > 0
    /\ \A a \in Agents : endo[a].StockPrice > 0

\* a price step with buys and sells in it, in which the crash that was
\* activated the step before decayed for the last time
C15_Witness ==
    /\ lastop.op = "scenario"
    /\ step_indicator = random_stock_crash_start + 1
    /\ ~crash /\ duration_crash = 0
    /\ intensity_crash \notin Intensities
    /\ StepDemand > 0 /\ StepSupply > 0
    /\ market_price > 0

\* ------------------------------------------------- illegal actions
\* C16: an agent action outside 0..no_actions raises and ends that agent's
\* turn with nothing modified: the state of the offending agent, of every
\* other agent and every copy of the pool are as they were just before the turn.
C16_IllegalAgentActionAborts ==
    (lastop.op \in {"order", "order_error"} /\ lastop.action \notin 0..no_actions)
        => /\ lastop.op = "order_error"
           /\ pc = "error"
           /\ endo = prev

\* the action no_actions + 1, raised after another agent had bought in the
\* same step
C16_Witness ==
    /\ lastop.op = "order_error"
    /\ lastop.action = no_actions + 1
    /\ pc = "error"
    /\ \E b \in Agents \ {lastop.agent} : endo[b].Demand > 0 /\ endo[b].NumberOfStocks > 0
    /\ endo = prev

\* C17: a planner action outside 0..no_actions of the circuit breaker raises on
\* every step, a decision step or not, and leaves every agent's AbleToBuy and
\* AbleToSell (and the rest of the state) as they were.
C17_IllegalPlannerActionAborts ==
    (lastop.op \in {"cb", "cb_error"} /\ lastop.action \notin 0..planner_no_actions)
        => /\ lastop.op = "cb_error"
           /\ pc = "error"
           /\ endo = prev

\* raised on a step that is not a decision step, while trading was closed
C17_Witness ==
    /\ lastop.op = "cb_error"
    /\ lastop.action = planner_no_actions + 1
    /\ step_indicator % policy_interval # 0
    /\ pc = "error"
    /\ AllFlags(endo, 0)
    /\ AllFlags(prev, 0)

\* ------------------------------------------------- reset
JustReset == lastop.op \in {"reset", "reset_mid_crash"}

\* C18: a reset, after any sequence of steps, also mid-crash and with stock
\* held, starts the episode afresh: step counter 0, no crash, and for every
\* agent StocksLeft = stock_quantity, NumberOfStocks = 0, Demand = Supply = 0,
\* TotalBalance = AvailableFunds = StartingFunds, the price history zero except
\* its first entry, the starting price, and the volume history zero.
C18_ResetReinitialises ==
    JustReset =>
        /\ step_indicator = 0
        /\ ~crash
        /\ \A a \in Agents :
              /\ endo[a].StocksLeft = stock_quantity
              /\ endo[a].NumberOfStocks = 0
              /\ endo[a].Demand = 0 /\ endo[a].Supply = 0
              /\ endo[a].TotalBalance = endo[a].StartingFunds
              /\ endo[a].AvailableFunds = endo[a].StartingFunds
              /\ endo[a].StartingFunds \in StartingFundsSet
              /\ Len(endo[a].StockPriceHistory) = stock_price_history_length
              /\ endo[a].StockPriceHistory[1] = market_price
              /\ \A i \in 2..stock_price_history_length : endo[a].StockPriceHistory[i] = 0
              /\ Len(endo[a].Volumes) = stock_price_history_length
              /\ \A i \in 1..stock_price_history_length : endo[a].Volumes[i] = 0

\* the reset was called while a crash was active and an agent held stock
C18_Witness ==
    /\ lastop.op = "reset_mid_crash"
    /\ pc = "idle"
    /\ timestep = 0 /\ step_indicator = 0
    /\ ~crash
    /\ \A a \in Agents : endo[a].NumberOfStocks = 0 /\ endo[a].StocksLeft = stock_quantity

\* ------------------------------------------------- buy, then sell back
\* the last two operations were a buy granted some N > 0 units and, right
\* after it and at the same price, a sell of the same N units by that agent
RoundTrip ==
    /\ Turn /\ Arm = "sell"
    /\ After.Supply > 0
    /\ Before.Demand = After.Supply
    /\ Before.NumberOfStocks = prev2[lastop.agent].NumberOfStocks + After.Supply
    /\ Before.AvailableFunds < prev2[lastop.agent].AvailableFunds
    /\ Before.StockPrice = prev2[lastop.agent].StockPrice

\* C19: a buy granted N units followed immediately, at the same price, by a
\* sell of the same N units leaves AvailableFunds within 2 * transaction_cost
\* * N * price of its value before the buy, and NumberOfStocks and every copy
\* of StocksLeft at their values before the buy.
C19_RoundTrip ==
    RoundTrip =>
        LET start == prev2[lastop.agent]
            N == After.Supply
            bound == 2 * CostOf(N * start.StockPrice)
        IN  /\ start.AvailableFunds - After.AvailableFunds <= bound
            /\ After.AvailableFunds - start.AvailableFunds <= bound
            /\ After.NumberOfStocks = start.NumberOfStocks
            /\ \A b \in Agents : endo[b].StocksLeft = prev2[b].StocksLeft

\* several units bought and sold back in the agent's next turn: the funds
\* end lower than they started, by the two transaction costs
C19_Witness ==
    /\ RoundTrip
    /\ After.Supply > 1
    /\ After.NumberOfStocks = prev2[lastop.agent].NumberOfStocks
    /\ After.AvailableFunds
          = prev2[lastop.agent].AvailableFunds - 2 * CostOf(After.Supply * After.StockPrice)

\* ------------------------------------------------- the buy arithmetic
\* an executed buy: a buy action that took the buy arm of the executor
ExecutedBuy == Turn /\ BuyAction /\ Arm = "buy"
\* floor(available_funds * (1 - transaction_cost) / price)
MaxAffordable ==
    (Before.AvailableFunds * (TcDen - TcNum)) \div (TcDen * Before.StockPrice)
Requested == (MaxAffordable * lastop.action) \div half_actions
Granted == IF Requested < Before.StocksLeft THEN Requested ELSE Before.StocksLeft
\* the turn's effect as stated: funds, holdings, every copy of the pool and
\* the recorded order flow
BuyAsStated ==
    /\ After.AvailableFunds
          = Before.AvailableFunds
              - Granted * (Before.StockPrice \div TcDen) * (TcDen + TcNum)
    /\ After.NumberOfStocks = Before.NumberOfStocks + Granted
    /\ \A b \in Agents : endo[b].StocksLeft = prev[b].StocksLeft - Granted
    /\ After.Demand = Granted
    /\ After.Supply = 0
\* funds 10000, price 100, action 10, 200 units left in the pool
ExampleBuy ==
    /\ Before.AvailableFunds = 10000 * TcDen
    /\ Before.StockPrice = 100 * TcDen
    /\ lastop.action = half_actions
    /\ Before.StocksLeft = 200

\* C20 as stated: an executed buy with action a in 1..10 grants
\* min(floor(floor(funds * (1 - cost) / price) * a / 10), StocksLeft), deducts
\* granted * price * (1 + cost), adds granted to the holdings, subtracts it from
\* the pool and records Demand = granted, Supply = 0; with funds 10000, price
\* 100, action 10 and 200 left this is 99 units and resulting funds of 24.25.
C20_BuyExampleAsStated ==
    ExecutedBuy =>
        /\ BuyAsStated
        /\ ExampleBuy => /\ Granted = 99
                         /\ After.AvailableFunds = 24 * TcDen + TcDen \div 4

\* C20, amended: the same effect of an executed buy; in the example the 99
\* units cost 99 * 100 * 1.0075 = 9974.25 and the resulting funds are 25.75.
C20_BuyArithmetic ==
    ExecutedBuy =>
        /\ BuyAsStated
        /\ ExampleBuy => /\ Granted = 99
                         /\ After.AvailableFunds = 25 * TcDen + (3 * TcDen) \div 4

\* the example's buy has been executed
C20_Witness ==
    /\ ExecutedBuy
    /\ ExampleBuy
    /\ After.Demand = 99
    /\ After.NumberOfStocks = 99
    /\ After.StocksLeft = 101
    /\ After.AvailableFunds = 25 * TcDen + (3 * TcDen) \div 4

\* ------------------------------------------------- orders against the pool
Min(x, y) == IF x < y THEN x ELSE y
\* the units not held by any agent just before the last turn
PoolAtTurn == stock_quantity - SumOver(prev, Agents, "NumberOfStocks")
\* what agent a asks for with buy action x in state s
RequestOf(s, a, x) == Tenths(max_stocks_buy(s[a].AvailableFunds, s[a].StockPrice), x)

\* C21: orders are applied one agent at a time against the shared pool: every
\* executed buy is granted min(requested, pool at the moment of its turn), and
\* for two buyers who together ask for more than the pool holds, the one
\* processed first gets min(its request, pool) and the other the remainder;
\* processing them in the other order exchanges the two outcomes.
C21_SequentialAgainstPool ==
    /\ (Turn /\ Arm = "buy") => After.Demand = Min(Wanted, PoolAtTurn)
    /\ (pc = "orders" /\ todo = Agents) =>
          \A a, b \in Agents : \A x, y \in 1..half_actions :
              LET ra == RequestOf(endo, a, x)
                  rb == RequestOf(endo, b, y)
                  pool == stock_quantity - SumOver(endo, Agents, "NumberOfStocks")
                  ab == agent_turn(agent_turn(endo, a, x), b, y)
                  ba == agent_turn(agent_turn(endo, b, y), a, x)
              IN  (a # b /\ AllFlags(endo, 0) /\ ra + rb > pool) =>
                      /\ ab[a].Demand = Min(ra, pool)
                      /\ ab[b].Demand = Min(rb, pool - ab[a].Demand)
                      /\ ba[b].Demand = Min(rb, pool)
                      /\ ba[a].Demand = Min(ra, pool - ba[b].Demand)

\* two buyers in one step: the first was served in full, the second asked for
\* more than was left and got the remainder
C21_Witness ==
    /\ Turn /\ Arm = "buy" /\ todo = {}
    /\ \E first \in Agents \ {lastop.agent} :
          /\ prev[first].Demand > 0
          /\ prev[first].NumberOfStocks = prev2[first].NumberOfStocks + prev[first].Demand
          /\ prev[first].Demand < prev2[first].StocksLeft
    /\ Wanted > Before.StocksLeft
    /\ After.Demand = Before.StocksLeft
    /\ After.Demand > 0

\* ------------------------------------------------- the crash
\* what the two crash blocks of the step about to run do
CrashBlocks == crash_update(step_indicator + 1, random_stock_crash_start,
                            crash, duration_crash)

\* C22: on the crash-start step the price is multiplied by the intensity
\* exactly once and the remaining duration is decremented exactly once; the
\* decay of the intensity, the second shock and the further decrement happen
\* only on later steps.
C22_CrashStartAppliedOnce ==
    /\ (pc = "scenario" /\ step_indicator + 1 = random_stock_crash_start) =>
          /\ CrashBlocks.shocks = 1
          /\ ~CrashBlocks.second
          /\ CrashBlocks.duration = duration_crash - 1
    /\ (lastop.op = "scenario" /\ step_indicator = random_stock_crash_start) =>
          intensity_crash \in Intensities

\* C23: every crash that starts also ends: the remaining duration is never
\* negative, no state has the crash active with the counter at 0, the crash
\* flag is cleared by a step only when the counter has reached 0, and from
\* every state with an active crash a state without one is reached.
C23_CrashCountsDownAndEnds ==
    /\ [](duration_crash >= 0 /\ (crash => duration_crash > 0))
    /\ [][(crash /\ ~crash' /\ lastop'.op = "scenario") => duration_crash' = 0]_vars
    /\ (crash ~> ~crash)

\* a crash that stayed active over at least one step has been counted down
\* to 0 by a later step
C23_Witness ==
    /\ lastop.op = "scenario"
    /\ ~crash
    /\ duration_crash = 0
    /\ random_stock_crash_start > 0
    /\ step_indicator > random_stock_crash_start + 1
    /\ intensity_crash \notin Intensities

\* C29: at most one crash is activated per episode: the crash flag goes from
\* off to on only in the step whose index is the drawn crash start, a step
\* taken at or after that index with the flag off leaves it off, a reset
\* leaves it off, and with a drawn start of 0 the flag is never on.
C29_OneCrashPerEpisode ==
    /\ [][(~crash /\ crash') => /\ lastop'.op = "scenario"
                                /\ step_indicator' = random_stock_crash_start
                                /\ step_indicator' = step_indicator + 1]_vars
    /\ [][(~crash /\ step_indicator >= random_stock_crash_start
                  /\ random_stock_crash_start' = random_stock_crash_start
                  /\ step_indicator' >= step_indicator) => ~crash']_vars
    /\ [](random_stock_crash_start = 0 => ~crash)

\* the episode was stepped to its horizon after its one crash had ended
C29_Witness ==
    /\ lastop.op = "scenario"
    /\ random_stock_crash_start > 0
    /\ step_indicator = CrashHorizon
    /\ ~crash
    /\ duration_crash = 0
    /\ intensity_crash \notin Intensities

\* ------------------------------------------------- the price history
\* entry t of the code's 0-based StockPriceHistory
HistoryAt(e, t) == e.StockPriceHistory[t + 1]
LastIndex == stock_price_history_length - 1

\* C24: the price history is append-only within an episode: a completed step
\* t writes entry t, and only entry t, with the price after the step; no other
\* operation but reset writes the history; entries above the current step
\* are 0, and entry 0 stays the price the episode started with.
C24_HistoryAppendOnly ==
    \A a \in Agents :
        /\ \A t \in 0..LastIndex : t > step_indicator => HistoryAt(endo[a], t) = 0
        /\ lastop.op = "scenario" =>
              /\ HistoryAt(endo[a], step_indicator) = market_price
              /\ \A t \in 0..LastIndex :
                    t # step_indicator => HistoryAt(endo[a], t) = HistoryAt(prev[a], t)
        /\ lastop.op \notin {"scenario", "reset", "reset_mid_crash"} =>
              endo[a].StockPriceHistory = prev[a].StockPriceHistory
        /\ JustReset => HistoryAt(endo[a], 0) = market_price
        /\ HistoryAt(endo[a], 0) \in Prices

\* three steps done at three different prices: entries 0..3 hold the four
\* prices in order, the last one the current price
C24_Witness ==
    /\ lastop.op = "scenario"
    /\ step_indicator = 3
    /\ \A a \in Agents :
          /\ HistoryAt(endo[a], 0) # HistoryAt(endo[a], 1)
          /\ HistoryAt(endo[a], 1) # HistoryAt(endo[a], 2)
          /\ HistoryAt(endo[a], 2) # HistoryAt(endo[a], 3)
          /\ HistoryAt(endo[a], 3) = market_price
          /\ HistoryAt(endo[a], 2) = HistoryAt(prev[a], 2)
          /\ HistoryAt(endo[a], 4) = 0

\* ------------------------------------------------- the liquidity function alone
\* planner_metric_liquidity is a pure function of its three arguments (and
\* appends one row, the volume of the day, to its csv file). It is called
\* here on every volume history of up to MetricLength entries, at every
\* index of the history, with every volume of the day.
InitMetric == InitDraw({1}, {0}, CrashDurations)

ComputeLiquidity ==
    /\ \E volumes \in VolumeHistories, volume_today \in VolumeValues :
          \E index \in 0..(Len(volumes) - 1) :
             metric' = [call |-> "function",
                        volume_today |-> volume_today, volumes |-> volumes,
                        index |-> index,
                        row |-> <<volume_today>>, raised |-> FALSE,
                        score |-> planner_metric_liquidity(volume_today,
                                                           volumes, index)]
    /\ UNCHANGED <<endo, market_price, timestep, step_indicator,
                   policy_interval, crash, random_stock_crash_start,
                   duration_crash, intensity_crash, planner_mask, pc, todo,
                   prev, prev2, lastop, liq_importance, calls>>

NextMetric == ComputeLiquidity

SpecMetric == InitMetric /\ [][NextMetric]_vars

\* ------------------------------------------------- liquidity claims
\* the maximum volume recorded at steps 0 .. index
RECURSIVE MaxUpTo(_, _)
MaxUpTo(volumes, index) ==
    IF index <= 0 THEN volumes[1]
    ELSE IF volumes[index + 1] >= MaxUpTo(volumes, index - 1)
         THEN volumes[index + 1] ELSE MaxUpTo(volumes, index - 1)

\* the average of the volumes of the last two steps up to and including
\* step index (of the one step there is at index 0)
TrailingAverage(volumes, index) ==
    IF index <= 0 THEN [num |-> volumes[1], den |-> 1]
    ELSE [num |-> volumes[index] + volumes[index + 1], den |-> 2]

SameFraction(x, y) == x.num * y.den = y.num * x.den

\* C25: the liquidity score is the trailing average of the last two recorded
\* volumes, current step included, divided by the maximum volume so far;
\* for the history 0, 5, 10 at index 2 it is 7.5 / 10 = 3/4.
C25_LiquidityTrailingOverMax ==
    metric.call = "function" =>
       /\ MaxUpTo(metric.volumes, metric.index) > 0 =>
             metric.score.num * TrailingAverage(metric.volumes, metric.index).den
                   * MaxUpTo(metric.volumes, metric.index)
                = metric.score.den
                   * TrailingAverage(metric.volumes, metric.index).num
       /\ (metric.volumes = <<0, 5, 10>> /\ metric.index = 2
             /\ metric.volume_today = 10)
          => SameFraction(metric.score, [num |-> 3, den |-> 4])

\* C26: the liquidity score is 0 whenever the volume of the current step is
\* 0, at every index and for every history, the all-zero history included.
C26_ZeroVolumeScoresZero ==
    (metric.call = "function" /\ metric.volume_today = 0) => metric.score.num = 0

\* ------------------------------------------------- conservation of the stock
\* C27: stock is conserved. In every reachable state, between two agents'
\* orders included, the shares left in the pool plus the shares held by all
\* agents are the configured stock_quantity, and every agent's copy of
\* StocksLeft holds the same value.
C27_StockConserved ==
    /\ \A a \in Agents :
          endo[a].StocksLeft + SumOver(endo, Agents, "NumberOfStocks")
             = stock_quantity
    /\ \A a, b \in Agents : endo[a].StocksLeft = endo[b].StocksLeft

\* an agent has just sold shares back to the pool while another agent holds
\* shares it bought earlier
C27_Witness ==
    /\ Turn /\ Arm = "sell"
    /\ After.Supply > 0
    /\ After.StocksLeft = Before.StocksLeft + After.Supply
    /\ \E b \in Agents \ {lastop.agent} : endo[b].NumberOfStocks > 0

\* ------------------------------------------------- flags and order fields
\* the shares an agent gained (lost) between the states s and t
Gained(s, t, a) ==
    IF t[a].NumberOfStocks > s[a].NumberOfStocks
    THEN t[a].NumberOfStocks - s[a].NumberOfStocks ELSE 0
Lost(s, t, a) ==
    IF t[a].NumberOfStocks < s[a].NumberOfStocks
    THEN s[a].NumberOfStocks - t[a].NumberOfStocks ELSE 0

\* a step has just ended without an error; prev2 is the state in which its
\* order loop began
StepEnded == lastop.op = "scenario" /\ pc = "idle"

\* C28: for every agent in every reachable state AbleToBuy equals AbleToSell
\* (both 0 or both 1), so every action 0..no_actions matches an arm of the
\* order executor; the agent's Demand and Supply are overwritten on its turn
\* with what the turn traded, so that at the end of an error-free step they
\* are the shares the agent bought and sold in that step and nothing of an
\* earlier step; and at most one of Demand and Supply is not zero.
C28_FlagsEqualOrdersOverwritten ==
    /\ \A a \in Agents :
          /\ endo[a].AbleToBuy = endo[a].AbleToSell
          /\ endo[a].AbleToBuy \in {0, 1}
          /\ \A action \in 0..no_actions :
                branch(action, endo[a].AbleToBuy, endo[a].AbleToSell) # "none"
          /\ endo[a].Demand = 0 \/ endo[a].Supply = 0
    /\ Turn =>
          /\ Arm # "none"
          /\ After.Demand = Gained(prev, endo, lastop.agent)
          /\ After.Supply = Lost(prev, endo, lastop.agent)
    /\ StepEnded =>
          \A a \in Agents :
             /\ endo[a].Demand = Gained(prev2, endo, a)
             /\ endo[a].Supply = Lost(prev2, endo, a)

\* an error-free step has ended in which an agent that entered the step with
\* the Demand of an earlier buy did not trade, and its Demand is 0
C28_Witness ==
    /\ StepEnded
    /\ \E a \in Agents :
          /\ prev2[a].Demand > 0
          /\ endo[a].Demand = 0 /\ endo[a].Supply = 0
          /\ endo[a].NumberOfStocks = prev2[a].NumberOfStocks

====
